---------------------------- MODULE Spec2Model ----------------------------
(***************************************************************************)
(* Asset-tag sequencing and asset lifecycle of the inventory application   *)
(* (app/assets/routes.py, app/settings/routes.py, app/models.py).          *)
(*                                                                         *)
(* Strings that the code takes apart (asset tags, office and category      *)
(* codes) are sequences of one-character strings, so that formatting,      *)
(* LIKE matching, split("-") and int() are computed as the code computes   *)
(* them.  Other text fields are opaque TLA+ strings; None is the value     *)
(* None (for text and dates) or NullId (for integer keys).                 *)
(***************************************************************************)
EXTENDS Integers, Sequences, FiniteSets, TLC

(***************************************************************************)
(* Bounds of the model.                                                    *)
(***************************************************************************)
MaxAssets == 3      \* rows of the assets table in the sequencer runs
MaxHistory == 3     \* tags handed out or deleted since the last data wipe
MaxLifeAssets == 1  \* rows of the assets table in the lifecycle runs
MaxEvents == 3      \* rows of the asset_events table in the lifecycle runs
MaxRequests == 4    \* create_asset requests of a concurrent run
MaxUsers == 3       \* rows of the users table
MaxToggles == 2     \* toggle_admin requests of a concurrent run
MaxTxns == 2        \* lifecycle requests of a concurrent run

None == "None"
NullId == -1

(***************************************************************************)
(* String primitives.                                                      *)
(***************************************************************************)
Digits == <<"0", "1", "2", "3", "4", "5", "6", "7", "8", "9">>

DigitChar(d) == Digits[d + 1]

IsDigit(c) == \E i \in 1..10 : Digits[i] = c

DigitVal(c) == (CHOOSE i \in 1..10 : Digits[i] = c) - 1

\* str(n) for n >= 0
RECURSIVE IntToStr(_)
IntToStr(n) == IF n < 10 THEN <<DigitChar(n)>>
               ELSE IntToStr(n \div 10) \o <<DigitChar(n % 10)>>

\* f"{n:04d}": zero-padded to at least four digits, longer when n > 9999
Pad04(n) == LET s == IntToStr(n)
            IN  IF Len(s) >= 4 THEN s
                ELSE [i \in 1..(4 - Len(s)) |-> "0"] \o s

\* int(s) raises ValueError unless s is a decimal numeral
IsInt(s) == Len(s) > 0 /\ \A i \in 1..Len(s) : IsDigit(s[i])

RECURSIVE ParseInt(_)
ParseInt(s) == IF Len(s) = 0 THEN 0
               ELSE 10 * ParseInt(SubSeq(s, 1, Len(s) - 1)) + DigitVal(s[Len(s)])

\* s.split(sep) for a one-character separator: the pieces of s from
\* position i on, cur being the piece under construction
RECURSIVE SplitFrom(_, _, _, _)
SplitFrom(s, sep, i, cur) ==
    IF i > Len(s) THEN <<cur>>
    ELSE IF s[i] = sep THEN <<cur>> \o SplitFrom(s, sep, i + 1, <<>>)
    ELSE SplitFrom(s, sep, i + 1, Append(cur, s[i]))

Split(s, sep) == SplitFrom(s, sep, 1, <<>>)

\* SQL LIKE: % matches any run of characters, _ any one character;
\* LikeFrom matches s from position i against pat from position j
RECURSIVE LikeFrom(_, _, _, _)
LikeFrom(s, i, pat, j) ==
    IF j > Len(pat) THEN i > Len(s)
    ELSE IF pat[j] = "%"
         THEN LikeFrom(s, i, pat, j + 1)
              \/ (i <= Len(s) /\ LikeFrom(s, i + 1, pat, j))
    ELSE IF pat[j] = "_"
         THEN i <= Len(s) /\ LikeFrom(s, i + 1, pat, j + 1)
    ELSE i <= Len(s) /\ s[i] = pat[j] /\ LikeFrom(s, i + 1, pat, j + 1)

Like(s, pat) == LikeFrom(s, 1, pat, 1)

\* str.strip(): leading and trailing blanks removed
RECURSIVE LStrip(_)
LStrip(s) == IF s # <<>> /\ Head(s) = " " THEN LStrip(Tail(s)) ELSE s

RECURSIVE RStrip(_)
RStrip(s) == IF s # <<>> /\ s[Len(s)] = " "
             THEN RStrip(SubSeq(s, 1, Len(s) - 1)) ELSE s

Strip(s) == RStrip(LStrip(s))

\* str.upper() on the letters the model's codes use
UpperChar(c) == CASE c = "m" -> "M"
                  [] c = "d" -> "D"
                  [] c = "c" -> "C"
                  [] c = "x" -> "X"
                  [] c = "e" -> "E"
                  [] c = "s" -> "S"
                  [] OTHER -> c

Upper(s) == [i \in 1..Len(s) |-> UpperChar(s[i])]

Dash == <<"-">>

Max(S) == CHOOSE x \in S : \A y \in S : y <= x


Str(n) == IntToStr(n)

(***************************************************************************)
(* Reference data: the locations and categories tables.  Codes are stored  *)
(* as the forms store them (stripped, upper-cased); a code may contain     *)
(* hyphens, as the seeded MD-OFFICE and DHK-WH do.                         *)
(***************************************************************************)
ESS == <<"E", "S", "S">>

\* (locations.code is nullable and only the form strips it: location 3
\* holds a code that is blank)
Location ==
    [id : {1}, code : {<<"M">>}] \cup [id : {2}, code : {<<"M", "-", "D">>}]
        \cup [id : {3}, code : {<<" ">>}]

\* (category 3 has no code: the column is NULL, read as the empty string)
Category ==
    [id : {1}, code : {<<"C">>}] \cup [id : {2}, code : {<<"X">>}]
        \cup [id : {3}, code : {<<>>}]

LocationIds == {l.id : l \in Location}
CategoryIds == {c.id : c \in Category}

LocationGet(id) == CHOOSE l \in Location : l.id = id
CategoryGet(id) == CHOOSE c \in Category : c.id = id

Years == {2025, 2026}

\* AssetForm.status choices
FormStatuses == {"in_use", "in_stock", "under_repair", "retired", "disposed"}

ALLOWED_STATUSES ==
    {"in_stock", "assigned", "repair", "damaged", "missing", "disposed", "in_use"}

VARIABLES
    assets,     \* assets table: set of rows
    events,     \* asset_events table, in created_at order
    sequences,  \* asset_tag_sequences table: <<office_code, year>> -> last_seq
    vendors,    \* vendors table: set of rows
    year,       \* date.today().year
    flash,      \* outcome reported by the last request
    handed,     \* history since the last data wipe: the numbers returned by
                \* generate_asset_tag ("issued" when the transaction
                \* committed, "discarded" when it did not) and the numbers
                \* of the assets removed by delete_asset ("deleted")
    requests,   \* create_asset requests in flight (concurrent runs)
    users       \* users table: set of rows

vars == <<assets, events, sequences, vendors, year, flash, handed, requests, users>>

\* The committed database as one value; a request works on a copy (its
\* session) and replaces the database on commit.
Db == [assets |-> assets, events |-> events, sequences |-> sequences,
       vendors |-> vendors]

(***************************************************************************)
(* Tag Sequencer.                                                          *)
(***************************************************************************)
\* the sequence number one existing tag contributes to the scan (0: skipped)
TagSeqOfParts(parts, n, office_code, year_str) ==
    IF n < 5 THEN 0
    ELSE IF parts[1] # ESS \/ parts[2] # office_code \/ parts[n - 1] # year_str
         THEN 0
    ELSE IF ~IsInt(parts[n]) THEN 0
    ELSE ParseInt(parts[n])

TagSeqSplit(parts, office_code, year_str) ==
    TagSeqOfParts(parts, Len(parts), office_code, year_str)

TagSeq(tag, office_code, year_str) ==
    TagSeqSplit(Split(tag, "-"), office_code, year_str)

LikePattern(office_code, year_str) ==
    ESS \o Dash \o office_code \o Dash \o <<"%">> \o Dash \o year_str
        \o Dash \o <<"%">>

ScanTags(A, pattern, office_code, year_str) ==
    Max({0} \cup {TagSeq(a.asset_tag, office_code, year_str) :
                    a \in {b \in A : Like(b.asset_tag, pattern)}})

_max_existing_seq_for_office_year(A, office_code, yr) ==
    ScanTags(A, LikePattern(office_code, Str(yr)), office_code, Str(yr))

\* the key under which the counter row is looked up
SeqKeyByCategory(office_code, cat_code, yr) == <<office_code \o Dash \o cat_code, yr>>

SeqKey(office_code, cat_code, yr) == <<office_code, yr>>

\* (variant: the stored value is overwritten by the scan's result)
SeqRowOverwritten(seqs, key, existing_max) ==
    IF key \notin DOMAIN seqs
    THEN (key :> (IF existing_max > 0 THEN existing_max ELSE 0)) @@ seqs
    ELSE [seqs EXCEPT ![key] = existing_max]

\* the sequences table after the creation or repair of the row of key
SeqRowRepaired(seqs, key, existing_max) ==
    IF key \notin DOMAIN seqs
    THEN (key :> (IF existing_max > 0 THEN existing_max ELSE 0)) @@ seqs
    ELSE IF existing_max > seqs[key]
         THEN [seqs EXCEPT ![key] = existing_max]
         ELSE seqs

_get_or_create_sequence(D, key, office_code, yr) ==
    SeqRowRepaired(D.sequences, key,
                   _max_existing_seq_for_office_year(D.assets, office_code, yr))

FormatTag(office_code, cat_code, yr, next_seq) ==
    ESS \o Dash \o office_code \o Dash \o cat_code \o Dash \o Str(yr)
        \o Dash \o Pad04(next_seq)

\* result: err (None or the ValueError), the session's sequences table, the
\* tag and its number
TagIssued(seqs, key, office_code, cat_code, yr, next_seq) ==
    [err |-> None,
     sequences |-> [seqs EXCEPT ![key] = next_seq],
     tag |-> FormatTag(office_code, cat_code, yr, next_seq),
     seq |-> next_seq, office |-> office_code]

TagFromRow(seqs, key, office_code, cat_code, yr) ==
    TagIssued(seqs, key, office_code, cat_code, yr, seqs[key] + 1)

\* (variant: the codes are not checked)
TagForCodesUnchecked(D, office_code, cat_code, yr) ==
    TagFromRow(
        _get_or_create_sequence(D, SeqKey(office_code, cat_code, yr), office_code, yr),
        SeqKey(office_code, cat_code, yr), office_code, cat_code, yr)

TagForCodes(D, office_code, cat_code, yr) ==
    IF office_code = <<>>
    THEN [err |-> "Location.code missing", sequences |-> D.sequences,
          tag |-> <<>>, seq |-> 0, office |-> office_code]
    ELSE IF cat_code = <<>>
    THEN [err |-> "Category.code missing", sequences |-> D.sequences,
          tag |-> <<>>, seq |-> 0, office |-> office_code]
    ELSE TagFromRow(
            _get_or_create_sequence(D, SeqKey(office_code, cat_code, yr),
                                    office_code, yr),
            SeqKey(office_code, cat_code, yr), office_code, cat_code, yr)

generate_asset_tag(D, location, category, yr) ==
    TagForCodes(D, Upper(Strip(location.code)), Upper(Strip(category.code)), yr)

Handed(g, yr, committed) ==
    [kind |-> IF committed THEN "issued" ELSE "discarded",
     office |-> g.office, year |-> Str(yr), seq |-> g.seq, tag |-> g.tag]

(***************************************************************************)
(* Rows.                                                                   *)
(***************************************************************************)
\* INTEGER PRIMARY KEY of the assets table: one above the largest id in use
NextAssetId(A) == IF A = {} THEN 1 ELSE Max({a.id : a \in A}) + 1

\* repair_cost is NULL: no numeral is stored
NoCost == <<>>

NewAsset(id, tag, status, category_id, location_id, vendor) ==
    [id |-> id, asset_tag |-> tag, status |-> status,
     category_id |-> category_id, location_id |-> location_id,
     vendor |-> vendor,
     assigned_to |-> None, assigned_department |-> None,
     assigned_email |-> None, assigned_at |-> None,
     repair_opened_at |-> None, repair_vendor |-> None,
     repair_closed_at |-> None, repair_cost |-> NoCost, repair_notes |-> None]

log_asset_event(asset_id, event_type, from_status, to_status, from_location_id, to_location_id) ==
    [asset_id |-> asset_id, event_type |-> event_type,
     from_status |-> from_status, to_status |-> to_status,
     from_location_id |-> from_location_id, to_location_id |-> to_location_id]

\* (variant: the column carries no UNIQUE constraint)
TagTakenNever(A, tag) == FALSE

\* the UNIQUE constraint on assets.asset_tag
TagTaken(A, tag) == \E a \in A : a.asset_tag = tag

_normalize_id(value) == IF value # 0 THEN value ELSE NullId

\* a row of the users table: the id and the admin flag
NewUser(id, is_admin) == [id |-> id, is_admin |-> is_admin]

Init ==
    /\ assets = {}
    /\ events = <<>>
    /\ sequences = <<>>
    /\ vendors = {}
    /\ year = 2025
    /\ flash = "none"
    /\ handed = <<>>
    /\ requests = <<>>
    /\ users = {NewUser(1, TRUE)}

(***************************************************************************)
(* create_asset, run from request to response without interleaving.        *)
(***************************************************************************)
CreateWithTag(g, id, status, cat_id, loc_id) ==
    IF g.err # None
    THEN /\ flash' = g.err
         /\ UNCHANGED <<assets, events, sequences, vendors, year, handed, requests, users>>
    ELSE IF TagTaken(assets, g.tag)
    THEN \* IntegrityError at flush: the request fails, nothing is committed
         /\ flash' = "create: server error"
         /\ handed' = Append(handed, Handed(g, year, FALSE))
         /\ UNCHANGED <<assets, events, sequences, vendors, year, requests, users>>
    ELSE /\ assets' = assets \cup {NewAsset(id, g.tag, status, cat_id, loc_id, None)}
         /\ events' = Append(events,
                log_asset_event(id, "created", None, status, NullId, loc_id))
         /\ sequences' = g.sequences
         /\ handed' = Append(handed, Handed(g, year, TRUE))
         /\ flash' = "create: success"
         /\ UNCHANGED <<vendors, year, requests, users>>

CreateNormalized(loc_id, cat_id, status) ==
    IF loc_id \notin LocationIds \/ cat_id \notin CategoryIds
    THEN /\ flash' = "create: location and category required"
         /\ UNCHANGED <<assets, events, sequences, vendors, year, handed, requests, users>>
    ELSE CreateWithTag(
            generate_asset_tag(Db, LocationGet(loc_id), CategoryGet(cat_id), year),
            NextAssetId(assets), status, cat_id, loc_id)

create_asset(location_id, category_id, status) ==
    CreateNormalized(_normalize_id(location_id), _normalize_id(category_id), status)

(***************************************************************************)
(* delete_asset: the row and, by cascade, its events.                      *)
(***************************************************************************)
\* what the history keeps of a deleted asset: the office of its location
\* and the year and number its tag ends with
DeletedParts(a, parts, n) ==
    [kind |-> "deleted",
     office |-> IF a.location_id \in LocationIds
                THEN Upper(Strip(LocationGet(a.location_id).code)) ELSE <<>>,
     year |-> IF n >= 2 THEN parts[n - 1] ELSE <<>>,
     seq |-> IF IsInt(parts[n]) THEN ParseInt(parts[n]) ELSE 0,
     tag |-> a.asset_tag]

DeletedSplit(a, parts) == DeletedParts(a, parts, Len(parts))

Deleted(a) == DeletedSplit(a, Split(a.asset_tag, "-"))

delete_asset(asset_id) ==
    /\ \E a \in assets : a.id = asset_id
    /\ LET asset == CHOOSE a \in assets : a.id = asset_id
       IN  /\ assets' = assets \ {asset}
           /\ handed' = Append(handed, Deleted(asset))
    /\ events' = SelectSeq(events, LAMBDA e : e.asset_id # asset_id)
    /\ flash' = "delete: success"
    /\ UNCHANGED <<sequences, vendors, year, requests, users>>

\* the calendar year advances between requests
NewYear ==
    /\ year + 1 \in Years
    /\ year' = year + 1
    /\ UNCHANGED <<assets, events, sequences, vendors, flash, handed, requests, users>>

(***************************************************************************)
(* import_assets.  A file is a sequence of rows; the columns for dates,    *)
(* cost, serial number, subcategory and notes are left blank in the files  *)
(* of the model.  The session accumulates every row's writes (each query   *)
(* autoflushes, so a row sees the rows before it) and is committed or      *)
(* rolled back as a whole after the last row.                              *)
(***************************************************************************)
CsvRow(name, status, category_code, location_code, asset_tag, vendor_name) ==
    [name |-> name, status |-> status, category_code |-> category_code,
     location_code |-> location_code, asset_tag |-> asset_tag,
     vendor_name |-> vendor_name]

NewVendor(name, contact_phone, address) ==
    [name |-> name, contact_phone |-> contact_phone, address |-> address]

ImportStart(D) ==
    [db |-> D, errors |-> 0, created |-> 0, minted |-> <<>>, crashed |-> FALSE]

RowError(st) == [st EXCEPT !.errors = @ + 1]

\* the row's asset is added and flushed, its created event logged
ImportStore(st, g, minted, id, status, category, location, vendor) ==
    IF g.err # None THEN RowError(st)
    ELSE IF TagTaken(st.db.assets, g.tag)
    THEN \* IntegrityError at flush, outside the try: the request dies
         [st EXCEPT !.crashed = TRUE, !.minted = minted]
    ELSE [st EXCEPT
            !.db.sequences = g.sequences,
            !.db.assets = @ \cup {NewAsset(id, g.tag, status,
                                    category.id, location.id, vendor)},
            !.db.events = Append(@, log_asset_event(id, "created",
                                    None, status, NullId, location.id)),
            !.minted = minted,
            !.created = @ + 1]

ImportMinted(st, g, status, category, location, vendor) ==
    ImportStore(st, g, IF g.err = None THEN Append(st.minted, g) ELSE st.minted,
                NextAssetId(st.db.assets), status, category, location, vendor)

\* the asset tag of the row: taken from the file, or generated when blank
ImportTag(st, asset_tag, status, category, location, vendor, yr) ==
    IF asset_tag # <<>>
    THEN IF TagTaken(st.db.assets, asset_tag)
         THEN RowError(st)
         ELSE ImportStore(st, [err |-> None, sequences |-> st.db.sequences,
                               tag |-> asset_tag, seq |-> 0, office |-> <<>>],
                          st.minted, NextAssetId(st.db.assets),
                          status, category, location, vendor)
    ELSE ImportMinted(st, generate_asset_tag(st.db, location, category, yr),
                      status, category, location, vendor)

\* the vendor of the row: looked up by name, created when missing
ImportVendor(st, vendor_name) ==
    IF vendor_name # "" /\ ~\E v \in st.db.vendors : v.name = vendor_name
    THEN [st EXCEPT !.db.vendors = @ \cup {NewVendor(vendor_name, None, None)}]
    ELSE st

ImportResolved(st, row, status, category_code, location_code, asset_tag, yr) ==
    IF row.name = "" THEN RowError(st)
    ELSE IF status \notin ALLOWED_STATUSES THEN RowError(st)
    ELSE IF category_code = <<>> THEN RowError(st)
    ELSE IF location_code = <<>> THEN RowError(st)
    ELSE IF ~\E c \in Category : c.code = category_code THEN RowError(st)
    ELSE IF ~\E l \in Location : l.code = location_code THEN RowError(st)
    ELSE ImportTag(ImportVendor(st, row.vendor_name), asset_tag, status,
                   CHOOSE c \in Category : c.code = category_code,
                   CHOOSE l \in Location : l.code = location_code,
                   IF row.vendor_name # "" THEN row.vendor_name ELSE None, yr)

ImportStatus(raw) ==
    IF raw = "" THEN "in_stock" ELSE IF raw = "in_use" THEN "assigned" ELSE raw

\* one iteration of the loop over reader
ImportRow(st, row, yr) ==
    ImportResolved(st, row, ImportStatus(row.status),
                   Upper(Strip(row.category_code)), Upper(Strip(row.location_code)),
                   Strip(row.asset_tag), yr)

RECURSIVE ImportRows(_, _, _)
ImportRows(rows, st, yr) ==
    IF rows = <<>> \/ st.crashed THEN st
    ELSE ImportRows(Tail(rows), ImportRow(st, Head(rows), yr), yr)

HandedAll(minted, yr, committed) ==
    [i \in 1..Len(minted) |-> Handed(minted[i], yr, committed)]

\* (variant: the counter rows written by the session survive the rollback)
ImportFinishKeepsCounter(st) ==
    IF st.crashed \/ st.errors > 0
    THEN /\ flash' = "import: errors, nothing was saved"
         /\ handed' = handed \o HandedAll(st.minted, year, FALSE)
         /\ sequences' = st.db.sequences
         /\ UNCHANGED <<assets, events, vendors, year, requests, users>>
    ELSE /\ assets' = st.db.assets
         /\ events' = st.db.events
         /\ sequences' = st.db.sequences
         /\ vendors' = st.db.vendors
         /\ handed' = handed \o HandedAll(st.minted, year, TRUE)
         /\ flash' = "import: success"
         /\ UNCHANGED <<year, requests, users>>

\* (variant: the rows stored before an error are committed)
ImportFinishPartial(st) ==
    IF st.crashed
    THEN /\ flash' = "import: server error"
         /\ handed' = handed \o HandedAll(st.minted, year, FALSE)
         /\ UNCHANGED <<assets, events, sequences, vendors, year, requests, users>>
    ELSE /\ assets' = st.db.assets
         /\ events' = st.db.events
         /\ sequences' = st.db.sequences
         /\ vendors' = st.db.vendors
         /\ handed' = handed \o HandedAll(st.minted, year, TRUE)
         /\ flash' = IF st.errors > 0 THEN "import: errors, nothing was saved"
                      ELSE "import: success"
         /\ UNCHANGED <<year, requests, users>>

ImportFinish(st) ==
    IF st.crashed
    THEN /\ flash' = "import: server error"
         /\ handed' = handed \o HandedAll(st.minted, year, FALSE)
         /\ UNCHANGED <<assets, events, sequences, vendors, year, requests, users>>
    ELSE IF st.errors > 0
    THEN \* db.session.rollback()
         /\ flash' = "import: errors, nothing was saved"
         /\ handed' = handed \o HandedAll(st.minted, year, FALSE)
         /\ UNCHANGED <<assets, events, sequences, vendors, year, requests, users>>
    ELSE /\ assets' = st.db.assets
         /\ events' = st.db.events
         /\ sequences' = st.db.sequences
         /\ vendors' = st.db.vendors
         /\ handed' = handed \o HandedAll(st.minted, year, TRUE)
         /\ flash' = "import: success"
         /\ UNCHANGED <<year, requests, users>>

import_assets(rows) == ImportFinish(ImportRows(rows, ImportStart(Db), year))

(***************************************************************************)
(* reset_app_data: the full data wipe.                                     *)
(***************************************************************************)
reset_app_data(confirm) ==
    IF confirm # "DELETE"
    THEN /\ flash' = "reset: type DELETE to confirm"
         /\ UNCHANGED <<assets, events, sequences, vendors, year, handed, requests, users>>
    ELSE /\ events' = <<>>
         /\ sequences' = <<>>
         /\ assets' = {}
         /\ vendors' = {}
         /\ handed' = <<>>
         /\ users' = {u \in users : u.is_admin}
         /\ flash' = "reset: all data wiped"
         /\ UNCHANGED <<year, requests>>

(***************************************************************************)
(* Asset lifecycle handlers.  Each loads the asset (404 when it does not   *)
(* exist: the handler is then not enabled), checks its guards, changes the *)
(* row, adds one event and commits.  Request fields are the stripped form  *)
(* values; "" is an absent or blank field.  Of the repair columns the      *)
(* model keeps repair_opened_at, repair_vendor, repair_closed_at,          *)
(* repair_cost and repair_notes.                                           *)
(***************************************************************************)
Today == "today"

OrNone(x) == IF x = "" THEN None ELSE x

Store(asset, changed) == assets' = (assets \ {asset}) \cup {changed}

Rejected(msg) ==
    /\ flash' = msg
    /\ UNCHANGED <<assets, events, sequences, vendors, year, handed, requests, users>>

\* (variant: the event takes the place of the last event of the log)
CommittedOverLast(asset, changed, event_type, from_status, from_location_id, msg) ==
    /\ Store(asset, changed)
    /\ events' = IF events = <<>> THEN events
                 ELSE [events EXCEPT ![Len(events)] =
                        log_asset_event(asset.id, event_type, from_status,
                                        changed.status, from_location_id,
                                        changed.location_id)]
    /\ flash' = msg
    /\ UNCHANGED <<sequences, vendors, year, handed, requests, users>>

\* the row is replaced, one event is appended and the transaction commits
Committed(asset, changed, event_type, from_status, from_location_id, msg) ==
    /\ Store(asset, changed)
    /\ events' = Append(events,
            log_asset_event(asset.id, event_type, from_status, changed.status,
                            from_location_id, changed.location_id))
    /\ flash' = msg
    /\ UNCHANGED <<sequences, vendors, year, handed, requests, users>>

\* (variant: no check of the current status)
DisposeUnguarded(asset) ==
    Committed(asset, [asset EXCEPT !.status = "disposed"], "dispose",
              asset.status, asset.location_id, "dispose: success")

Dispose(asset) ==
    IF asset.status = "disposed"
    THEN Rejected("dispose: already disposed")
    ELSE Committed(asset, [asset EXCEPT !.status = "disposed"], "dispose",
                   asset.status, asset.location_id, "dispose: success")

dispose_asset(asset_id) == \E asset \in assets : asset.id = asset_id /\ Dispose(asset)

AssignGuardNoDamaged == {"disposed", "repair", "missing"}

AssignGuard == {"disposed", "repair", "missing", "damaged"}

Assign(asset, assigned_to, assigned_department, assigned_email) ==
    IF asset.status \in AssignGuard
    THEN Rejected("assign: cannot assign")
    ELSE IF assigned_to = ""
    THEN Rejected("assign: assignee name required")
    ELSE Committed(asset,
            [asset EXCEPT !.assigned_to = assigned_to,
                          !.assigned_department = OrNone(assigned_department),
                          !.assigned_email = OrNone(assigned_email),
                          !.assigned_at = Today,
                          !.status = IF @ \in {"in_stock", "in_use"}
                                     THEN "assigned" ELSE @],
            "assign", asset.status, asset.location_id, "assign: success")

assign_asset(asset_id, assigned_to, assigned_department, assigned_email) ==
    \E asset \in assets :
        asset.id = asset_id
        /\ Assign(asset, assigned_to, assigned_department, assigned_email)

\* (variant: the status always returns to in_stock)
UnassignToStock(asset) ==
    IF asset.assigned_to = None /\ asset.assigned_at = None
    THEN Rejected("unassign: not assigned")
    ELSE Committed(asset,
            [asset EXCEPT !.assigned_to = None, !.assigned_department = None,
                          !.assigned_email = None, !.assigned_at = None,
                          !.status = "in_stock"],
            "unassign", asset.status, asset.location_id, "unassign: success")

Unassign(asset) ==
    IF asset.assigned_to = None /\ asset.assigned_at = None
    THEN Rejected("unassign: not assigned")
    ELSE Committed(asset,
            [asset EXCEPT !.assigned_to = None, !.assigned_department = None,
                          !.assigned_email = None, !.assigned_at = None,
                          !.status = IF @ \in {"assigned", "in_use"}
                                     THEN "in_stock" ELSE @],
            "unassign", asset.status, asset.location_id, "unassign: success")

unassign_asset(asset_id) == \E asset \in assets : asset.id = asset_id /\ Unassign(asset)

\* func.lower / str.lower on the vendor names of the model
Lower(name) == IF name = "ACME" THEN "acme" ELSE name

\* the vendor the form resolves to: the asset's own, or one found by name
\* (case-insensitive); None when there is none
ChosenVendor(asset, vendor_option, repair_vendor) ==
    IF vendor_option = "asset_vendor" /\ asset.vendor # None
    THEN asset.vendor
    ELSE IF repair_vendor # ""
            /\ \E v \in vendors : Lower(v.name) = Lower(repair_vendor)
    THEN (CHOOSE v \in vendors : Lower(v.name) = Lower(repair_vendor)).name
    ELSE None

\* (variant: the assignment survives the start of a repair)
RepairKeepsAssignment(asset, resolved_vendor_name, repair_notes) ==
    [asset EXCEPT !.repair_opened_at = Today,
                  !.repair_vendor = resolved_vendor_name,
                  !.repair_notes = OrNone(repair_notes),
                  !.status = "repair"]

RepairStarted(asset, resolved_vendor_name, repair_notes) ==
    [asset EXCEPT !.repair_opened_at = Today,
                  !.repair_vendor = resolved_vendor_name,
                  !.repair_notes = OrNone(repair_notes),
                  !.status = "repair",
                  !.assigned_to = None,
                  !.assigned_department = IF asset.assigned_to # None THEN None ELSE @,
                  !.assigned_email = IF asset.assigned_to # None THEN None ELSE @,
                  !.assigned_at = IF asset.assigned_to # None THEN None ELSE @]

StartRepairWith(asset, chosen, repair_vendor, repair_vendor_phone, repair_vendor_address, repair_notes) ==
    IF chosen # None
    THEN /\ Store(asset, RepairStarted(asset, chosen, repair_notes))
         /\ events' = Append(events,
                log_asset_event(asset.id, "repair_start", asset.status, "repair",
                                asset.location_id, asset.location_id))
         /\ flash' = "repair_start: success"
         /\ UNCHANGED <<sequences, vendors, year, handed, requests, users>>
    ELSE IF repair_vendor = ""
    THEN Rejected("repair_start: vendor required")
    ELSE IF repair_vendor_phone = "" \/ repair_vendor_address = ""
    THEN Rejected("repair_start: vendor number and address required")
    ELSE /\ vendors' = vendors \cup
                {NewVendor(repair_vendor, repair_vendor_phone, repair_vendor_address)}
         /\ Store(asset, RepairStarted(asset, repair_vendor, repair_notes))
         /\ events' = Append(events,
                log_asset_event(asset.id, "repair_start", asset.status, "repair",
                                asset.location_id, asset.location_id))
         /\ flash' = "repair_start: success"
         /\ UNCHANGED <<sequences, year, handed, requests, users>>

StartRepair(asset, vendor_option, repair_vendor, repair_vendor_phone, repair_vendor_address, repair_notes) ==
    IF asset.status \in {"disposed", "missing"}
    THEN Rejected("repair_start: disposed or missing")
    ELSE IF asset.status = "repair"
    THEN Rejected("repair_start: already under repair")
    ELSE StartRepairWith(asset, ChosenVendor(asset, vendor_option, repair_vendor),
                         repair_vendor, repair_vendor_phone,
                         repair_vendor_address, repair_notes)

start_repair(asset_id, vendor_option, repair_vendor, repair_vendor_phone, repair_vendor_address, repair_notes) ==
    \E asset \in assets :
        asset.id = asset_id
        /\ StartRepair(asset, vendor_option, repair_vendor, repair_vendor_phone,
                       repair_vendor_address, repair_notes)

\* float(s) succeeds on the decimal numerals of the model: digits with at
\* most one point and at least one digit
IsFloat(s) ==
    /\ \A i \in 1..Len(s) : IsDigit(s[i]) \/ s[i] = "."
    /\ \E i \in 1..Len(s) : IsDigit(s[i])
    /\ Cardinality({i \in 1..Len(s) : s[i] = "."}) <= 1

\* (variant: the legacy status under_repair is accepted as well)
CompleteRepairLegacy(asset, outcome, repair_cost, repair_notes) ==
    IF asset.status \notin {"repair", "under_repair"}
    THEN Rejected("repair_end: not under repair")
    ELSE IF repair_cost # <<>> /\ ~IsFloat(repair_cost)
    THEN Rejected("repair_end: cost must be a number")
    ELSE Committed(asset,
            [asset EXCEPT !.repair_closed_at = Today,
                          !.repair_cost = IF repair_cost # <<>> THEN repair_cost ELSE @,
                          !.repair_notes = IF repair_notes # "" THEN repair_notes ELSE @,
                          !.status = IF outcome = "disposed"
                                     THEN "disposed" ELSE "in_stock"],
            "repair_end", asset.status, asset.location_id, "repair_end: success")

\* (variant: an outcome that is neither disposed nor back_to_stock marks the
\* asset missing)
CompleteRepairStrict(asset, outcome, repair_cost, repair_notes) ==
    IF asset.status # "repair"
    THEN Rejected("repair_end: not under repair")
    ELSE IF repair_cost # <<>> /\ ~IsFloat(repair_cost)
    THEN Rejected("repair_end: cost must be a number")
    ELSE Committed(asset,
            [asset EXCEPT !.repair_closed_at = Today,
                          !.repair_cost = IF repair_cost # <<>> THEN repair_cost ELSE @,
                          !.repair_notes = IF repair_notes # "" THEN repair_notes ELSE @,
                          !.status = IF outcome = "disposed" THEN "disposed"
                                     ELSE IF outcome = "back_to_stock" THEN "in_stock"
                                     ELSE "missing"],
            "repair_end", asset.status, asset.location_id, "repair_end: success")

\* (variant: the closure date is stored before the cost is validated)
CompleteRepairEagerDate(asset, outcome, repair_cost, repair_notes) ==
    IF asset.status # "repair"
    THEN Rejected("repair_end: not under repair")
    ELSE IF repair_cost # <<>> /\ ~IsFloat(repair_cost)
    THEN /\ Store(asset, [asset EXCEPT !.repair_closed_at = Today])
         /\ flash' = "repair_end: cost must be a number"
         /\ UNCHANGED <<events, sequences, vendors, year, handed, requests, users>>
    ELSE Committed(asset,
            [asset EXCEPT !.repair_closed_at = Today,
                          !.repair_cost = IF repair_cost # <<>> THEN repair_cost ELSE @,
                          !.repair_notes = IF repair_notes # "" THEN repair_notes ELSE @,
                          !.status = IF outcome = "disposed"
                                     THEN "disposed" ELSE "in_stock"],
            "repair_end", asset.status, asset.location_id, "repair_end: success")

CompleteRepair(asset, outcome, repair_cost, repair_notes) ==
    IF asset.status # "repair"
    THEN Rejected("repair_end: not under repair")
    ELSE IF repair_cost # <<>> /\ ~IsFloat(repair_cost)
    THEN Rejected("repair_end: cost must be a number")
    ELSE Committed(asset,
            [asset EXCEPT !.repair_closed_at = Today,
                          !.repair_cost = IF repair_cost # <<>> THEN repair_cost ELSE @,
                          !.repair_notes = IF repair_notes # "" THEN repair_notes ELSE @,
                          !.status = IF outcome = "disposed"
                                     THEN "disposed" ELSE "in_stock"],
            "repair_end", asset.status, asset.location_id, "repair_end: success")

complete_repair(asset_id, outcome, repair_cost, repair_notes) ==
    \E asset \in assets :
        asset.id = asset_id /\ CompleteRepair(asset, outcome, repair_cost, repair_notes)

\* (variant: a moved asset returns to stock)
MoveToStock(asset, new_location_id) ==
    IF ~IsInt(new_location_id)
    THEN Rejected("move: select a valid location")
    ELSE IF ParseInt(new_location_id) = asset.location_id
    THEN Rejected("move: already in this location")
    ELSE Committed(asset,
            [asset EXCEPT !.location_id = ParseInt(new_location_id),
                          !.status = "in_stock"],
            "move", asset.status, asset.location_id, "move: success")

Move(asset, new_location_id) ==
    IF ~IsInt(new_location_id)
    THEN Rejected("move: select a valid location")
    ELSE IF ParseInt(new_location_id) = asset.location_id
    THEN Rejected("move: already in this location")
    ELSE Committed(asset,
            [asset EXCEPT !.location_id = ParseInt(new_location_id)],
            "move", asset.status, asset.location_id, "move: success")

move_asset(asset_id, new_location_id) ==
    \E asset \in assets : asset.id = asset_id /\ Move(asset, new_location_id)

\* (variant: old_status is read after the status was changed)
MarkDamagedStale(asset) ==
    IF asset.status = "disposed"
    THEN Rejected("damaged: asset is disposed")
    ELSE Committed(asset, [asset EXCEPT !.status = "damaged"], "damaged",
                   "damaged", asset.location_id, "damaged: success")

MarkDamaged(asset) ==
    IF asset.status = "disposed"
    THEN Rejected("damaged: asset is disposed")
    ELSE Committed(asset, [asset EXCEPT !.status = "damaged"], "damaged",
                   asset.status, asset.location_id, "damaged: success")

mark_damaged(asset_id) == \E asset \in assets : asset.id = asset_id /\ MarkDamaged(asset)

MarkMissing(asset) ==
    IF asset.status = "disposed"
    THEN Rejected("missing: asset is disposed")
    ELSE Committed(asset, [asset EXCEPT !.status = "missing"], "missing",
                   asset.status, asset.location_id, "missing: success")

mark_missing(asset_id) == \E asset \in assets : asset.id = asset_id /\ MarkMissing(asset)

\* (variant: the tag is minted again from the submitted location and category)
EditRetags(asset, status, location_id, category_id) ==
    /\ Store(asset, [asset EXCEPT !.status = status,
                                  !.location_id = _normalize_id(location_id),
                                  !.category_id = _normalize_id(category_id),
                                  !.asset_tag = FormatTag(
                                        Upper(Strip(LocationGet(location_id).code)),
                                        Upper(Strip(CategoryGet(category_id).code)),
                                        year, 1)])
    /\ flash' = "edit: success"
    /\ UNCHANGED <<events, sequences, vendors, year, handed, requests, users>>

\* edit_asset: the form's fields overwrite the row; no event is logged.
\* status is one of the form's choices; asset_tag is not written.
Edit(asset, status, location_id, category_id) ==
    /\ Store(asset, [asset EXCEPT !.status = status,
                                  !.location_id = _normalize_id(location_id),
                                  !.category_id = _normalize_id(category_id)])
    /\ flash' = "edit: success"
    /\ UNCHANGED <<events, sequences, vendors, year, handed, requests, users>>

edit_asset(asset_id, status, location_id, category_id) ==
    \E asset \in assets :
        asset.id = asset_id /\ status \in FormStatuses
        /\ Edit(asset, status, location_id, category_id)

(***************************************************************************)
(* Inputs of the sequencer runs.                                           *)
(***************************************************************************)
Tag_M_C_2 == FormatTag(<<"M">>, <<"C">>, 2025, 2)
Tag_MD_C_1 == FormatTag(<<"M", "-", "D">>, <<"C">>, 2025, 1)

RowMint == CsvRow("pc", "", <<"c">>, <<" ", "M">>, <<>>, "")
RowMintVendor == CsvRow("pc", "in_stock", <<"X">>, <<"M">>, <<>>, "acme")
RowTagM == CsvRow("pc", "in_use", <<"C">>, <<"M">>, Tag_M_C_2, "")
RowTagMD == CsvRow("pc", "in_stock", <<"C">>, <<"M", "-", "D">>, Tag_MD_C_1, "")
RowNoName == CsvRow("", "in_stock", <<"C">>, <<"M">>, <<>>, "")
RowBadStatus == CsvRow("pc", "retired", <<"C">>, <<"M">>, <<>>, "")

CsvFiles ==
    { <<RowTagM>>, <<RowTagMD>>, <<RowMint, RowMint>>,
      <<RowMintVendor, RowNoName>>, <<RowBadStatus>> }

CreateInputs == {<<1, 1>>, <<1, 2>>, <<2, 1>>, <<0, 1>>}

SeqRoom == Cardinality(assets) < MaxAssets /\ Len(handed) < MaxHistory

SeqNext ==
    \/ \E in \in CreateInputs : SeqRoom /\ create_asset(in[1], in[2], "in_stock")
    \/ \E rows \in CsvFiles : SeqRoom /\ import_assets(rows)
    \/ \E a \in assets : Len(handed) < MaxHistory /\ delete_asset(a.id)
    \/ \E confirm \in {"DELETE", ""} : reset_app_data(confirm)

SeqSpec == Init /\ [][SeqNext]_vars

(***************************************************************************)
(* Inputs of the import runs: uploaded files with valid rows, rows that    *)
(* fail validation, explicit tags (also twice in one file), minted tags    *)
(* and new vendors.                                                        *)
(***************************************************************************)
RowMintMD == CsvRow("pc", "", <<"C">>, <<"m", "-", "d">>, <<>>, "")
RowVendor == CsvRow("pc", "damaged", <<"X">>, <<"M">>, <<>>, "acme")
RowNoLocation == CsvRow("pc", "", <<"C">>, <<"Q">>, <<>>, "")

ImportFiles ==
    { <<RowTagM>>, <<RowTagM, RowTagM>>, <<RowTagMD>>, <<RowMintMD>>,
      <<RowVendor, RowMint>>, <<RowMintVendor, RowNoName>>, <<RowBadStatus>>,
      <<RowMint, RowNoLocation>> }

ImportNext ==
    \/ \E rows \in ImportFiles : SeqRoom /\ import_assets(rows)
    \/ \E a \in assets : Len(handed) < MaxHistory /\ delete_asset(a.id)

ImportSpec == Init /\ [][ImportNext]_vars

(***************************************************************************)
(* Inputs of the runs with blank codes: create_asset for locations and     *)
(* categories with and without a code.                                     *)
(***************************************************************************)
CodeInputs ==
    {<<1, 1>>, <<1, 2>>, <<2, 1>>, <<2, 2>>, <<3, 1>>, <<1, 3>>, <<3, 3>>}

CodeNext ==
    \/ \E in \in CodeInputs : SeqRoom /\ create_asset(in[1], in[2], "in_stock")
    \/ \E a \in assets : Len(handed) < MaxHistory /\ delete_asset(a.id)
    \/ reset_app_data("DELETE")

CodeSpec == Init /\ [][CodeNext]_vars

(***************************************************************************)
(* Inputs of the lifecycle runs.                                           *)
(***************************************************************************)
AssignInputs == {<<"", "IT", "">>, <<"bob", "IT", "b@x">>}

RepairInputs ==
    { <<"asset_vendor", "", "", "", "">>,
      <<"other", "acme", "555", "street", "">>,
      <<"other", "ACME", "", "", "">> }

CompleteInputs ==
    { <<"disposed", <<>>, "">>,
      <<"back_to_stock", <<"1", "2", ".", "5">>, "">>,
      <<"", <<"a", "b", "c">>, "">>,
      <<"", <<"7">>, "fixed">> }

MoveInputs == {<<"1">>, <<"2">>, <<"x">>}

EditInputs == {<<"in_stock", 1, 1>>, <<"in_use", 2, 1>>}

CreateStatuses == {"in_stock", "under_repair"}

LifeRoom == Len(events) < MaxEvents

LifeNext ==
    \/ \E st \in CreateStatuses :
          /\ Cardinality(assets) < MaxLifeAssets
          /\ LifeRoom
          /\ create_asset(1, 1, st)
    \/ \E a \in assets : LifeRoom /\ dispose_asset(a.id)
    \/ \E a \in assets, in \in AssignInputs :
          LifeRoom /\ assign_asset(a.id, in[1], in[2], in[3])
    \/ \E a \in assets : LifeRoom /\ unassign_asset(a.id)
    \/ \E a \in assets, in \in RepairInputs :
          LifeRoom /\ start_repair(a.id, in[1], in[2], in[3], in[4], in[5])
    \/ \E a \in assets, in \in CompleteInputs :
          LifeRoom /\ complete_repair(a.id, in[1], in[2], in[3])
    \/ \E a \in assets, l \in MoveInputs : LifeRoom /\ move_asset(a.id, l)
    \/ \E a \in assets : LifeRoom /\ mark_damaged(a.id)
    \/ \E a \in assets : LifeRoom /\ mark_missing(a.id)
    \/ \E a \in assets, in \in EditInputs : edit_asset(a.id, in[1], in[2], in[3])

LifeSpec == Init /\ [][LifeNext]_vars

(***************************************************************************)
(* create_asset under concurrent requests.  The server handles requests in *)
(* threads, each with its own session and connection to the SQLite file    *)
(* named by config.py.  with_for_update() adds nothing to the SELECT on    *)
(* SQLite, and a connection holds no lock between its SELECTs; the first   *)
(* INSERT or UPDATE of a session takes the database's write lock, which it *)
(* keeps until it commits or rolls back.  A request's steps:               *)
(*   query   the SELECT of the counter row                                 *)
(*   scan    the scan of the existing tags, the creation or repair of the  *)
(*           row (flushed), the increment in memory and the tag            *)
(*   flush   UPDATE of the counter row and INSERT of the asset             *)
(*   commit  the created event and the COMMIT                              *)
(***************************************************************************)
Request(location_id, category_id) ==
    [pc |-> "query", location_id |-> location_id, category_id |-> category_id,
     found |-> FALSE, last_seq |-> 0, seq |-> 0, tag |-> <<>>, lock |-> FALSE]

ReqOffice(req) == Upper(Strip(LocationGet(req.location_id).code))
ReqCat(req) == Upper(Strip(CategoryGet(req.category_id).code))
ReqKey(req) == SeqKey(ReqOffice(req), ReqCat(req), year)

\* the write lock is free, or r holds it
CanWrite(r) == \A q \in DOMAIN requests : q # r => ~requests[q].lock

ReqHanded(req, kind) ==
    [kind |-> kind, office |-> ReqOffice(req), year |-> Str(year), seq |-> req.seq,
     tag |-> req.tag]

Arrive(location_id, category_id) ==
    /\ Len(requests) < MaxRequests
    /\ requests' = Append(requests, Request(location_id, category_id))
    /\ UNCHANGED <<assets, events, sequences, vendors, year, flash, handed, users>>

QuerySequence(r) ==
    /\ requests[r].pc = "query"
    /\ requests' = [requests EXCEPT
            ![r].found = ReqKey(requests[r]) \in DOMAIN sequences,
            ![r].last_seq = IF ReqKey(requests[r]) \in DOMAIN sequences
                            THEN sequences[ReqKey(requests[r])] ELSE 0,
            ![r].pc = "scan"]
    /\ UNCHANGED <<assets, events, sequences, vendors, year, flash, handed, users>>

Tagged(req, last_seq, lock) ==
    [req EXCEPT !.last_seq = last_seq, !.seq = last_seq + 1,
                !.tag = FormatTag(ReqOffice(req), ReqCat(req), year, last_seq + 1),
                !.lock = lock, !.pc = "flush"]

ScanWith(r, req, existing_max) ==
    IF ~req.found
    THEN \* INSERT of the new row, flushed
         /\ CanWrite(r)
         /\ IF ReqKey(req) \in DOMAIN sequences
            THEN \* UNIQUE (office_code, year): another request committed the row
                 /\ requests' = [requests EXCEPT ![r].pc = "failed"]
                 /\ flash' = "create: server error"
            ELSE /\ requests' = [requests EXCEPT ![r] = Tagged(req, existing_max, TRUE)]
                 /\ UNCHANGED flash
    ELSE IF existing_max > req.last_seq
    THEN \* repair of the row, flushed
         /\ CanWrite(r)
         /\ requests' = [requests EXCEPT ![r] = Tagged(req, existing_max, TRUE)]
         /\ UNCHANGED flash
    ELSE /\ requests' = [requests EXCEPT ![r] = Tagged(req, req.last_seq, FALSE)]
         /\ UNCHANGED flash

ScanAndTag(r) ==
    /\ requests[r].pc = "scan"
    /\ ScanWith(r, requests[r],
                _max_existing_seq_for_office_year(assets, ReqOffice(requests[r]), year))
    /\ UNCHANGED <<assets, events, sequences, vendors, year, handed, users>>

FlushAsset(r) ==
    /\ requests[r].pc = "flush"
    /\ CanWrite(r)
    /\ IF TagTaken(assets, requests[r].tag)
       THEN \* IntegrityError: the session is rolled back
            /\ requests' = [requests EXCEPT ![r].pc = "failed", ![r].lock = FALSE]
            /\ handed' = Append(handed, ReqHanded(requests[r], "discarded"))
            /\ flash' = "create: server error"
       ELSE /\ requests' = [requests EXCEPT ![r].pc = "commit", ![r].lock = TRUE]
            /\ UNCHANGED <<handed, flash, users>>
    /\ UNCHANGED <<assets, events, sequences, vendors, year, users>>

CommitWith(r, req, id) ==
    /\ sequences' = (ReqKey(req) :> req.seq) @@ sequences
    /\ assets' = assets \cup {NewAsset(id, req.tag, "in_stock", req.category_id,
                                       req.location_id, None)}
    /\ events' = Append(events, log_asset_event(id, "created", None, "in_stock",
                                                NullId, req.location_id))
    /\ requests' = [requests EXCEPT ![r].pc = "done", ![r].lock = FALSE]
    /\ handed' = Append(handed, ReqHanded(req, "issued"))
    /\ flash' = "create: success"
    /\ UNCHANGED <<vendors, year, users>>

Commit(r) ==
    /\ requests[r].pc = "commit"
    /\ CommitWith(r, requests[r], NextAssetId(assets))

\* the write lock stays taken beyond the busy timeout: database is locked
LockTimeout(r) ==
    /\ requests[r].pc \in {"scan", "flush"}
    /\ ~CanWrite(r)
    /\ requests' = [requests EXCEPT ![r].pc = "failed"]
    /\ handed' = IF requests[r].pc = "flush"
                 THEN Append(handed, ReqHanded(requests[r], "discarded"))
                 ELSE handed
    /\ flash' = "create: server error"
    /\ UNCHANGED <<assets, events, sequences, vendors, year, users>>

\* the concurrent requests are for office M, with the categories that have a
\* code
ConcCategories == {1, 2}

ConcNext ==
    \/ \E c \in ConcCategories : Arrive(1, c)
    \/ \E r \in DOMAIN requests : QuerySequence(r)
    \/ \E r \in DOMAIN requests : ScanAndTag(r)
    \/ \E r \in DOMAIN requests : FlushAsset(r)
    \/ \E r \in DOMAIN requests : Commit(r)
    \/ \E r \in DOMAIN requests : LockTimeout(r)

ConcSpec == Init /\ [][ConcNext]_vars

(***************************************************************************)
(* Lifecycle requests run by concurrent threads.  A handler loads the      *)
(* asset with a plain SELECT (no transaction is open, no lock is held),    *)
(* checks its guard on the loaded row, changes attributes of the loaded    *)
(* object, adds the event and commits.  The commit writes one transaction: *)
(* an UPDATE of the attributes the handler changed, by primary key, and    *)
(* the INSERT of the event; when it raises, neither is persisted.          *)
(***************************************************************************)
TxnOps == {"dispose", "assign", "damaged"}

\* the guard of the handler, on the row it loaded
TxnRefused(op, asset) ==
    IF op = "assign" THEN asset.status \in AssignGuard
    ELSE asset.status = "disposed"

\* the loaded object after the handler's assignments
TxnChanged(op, asset) ==
    IF op = "dispose" THEN [asset EXCEPT !.status = "disposed"]
    ELSE IF op = "damaged" THEN [asset EXCEPT !.status = "damaged"]
    ELSE [asset EXCEPT !.assigned_to = "bob",
                       !.assigned_department = "IT",
                       !.assigned_email = "b@x",
                       !.assigned_at = Today,
                       !.status = IF @ \in {"in_stock", "in_use"}
                                  THEN "assigned" ELSE @]

TxnEvent(op, asset) ==
    log_asset_event(asset.id, op, asset.status, TxnChanged(op, asset).status,
                    asset.location_id, asset.location_id)

\* the UPDATE sets the columns whose value the handler changed
Merged(current, loaded, changed) ==
    [f \in DOMAIN current |->
        IF changed[f] # loaded[f] THEN changed[f] ELSE current[f]]

\* Asset.query.get_or_404(asset_id)
TxnBegin(op, asset_id) ==
    /\ Len(requests) < MaxTxns
    /\ \E asset \in assets :
          /\ asset.id = asset_id
          /\ requests' = Append(requests, [op |-> op, asset |-> asset, pc |-> "loaded"])
    /\ UNCHANGED <<assets, events, sequences, vendors, year, flash, handed, users>>

TxnStore(r, current, loaded, op) ==
    /\ assets' = (assets \ {current}) \cup {Merged(current, loaded, TxnChanged(op, loaded))}
    /\ events' = Append(events, TxnEvent(op, loaded))
    /\ requests' = [requests EXCEPT ![r].pc = "done"]
    /\ flash' = "success"
    /\ UNCHANGED <<sequences, vendors, year, handed, users>>

\* the rest of the handler, up to the response
TxnCommit(r) ==
    /\ requests[r].pc = "loaded"
    /\ IF TxnRefused(requests[r].op, requests[r].asset)
       THEN /\ requests' = [requests EXCEPT ![r].pc = "refused"]
            /\ flash' = "refused"
            /\ UNCHANGED <<assets, events, sequences, vendors, year, handed, users>>
       ELSE \E current \in assets :
               /\ current.id = requests[r].asset.id
               /\ TxnStore(r, current, requests[r].asset, requests[r].op)

\* (variant: the status is committed before the event is written)
TxnFailAfterStatus(r) ==
    /\ requests[r].pc = "loaded"
    /\ ~TxnRefused(requests[r].op, requests[r].asset)
    /\ \E current \in assets :
          /\ current.id = requests[r].asset.id
          /\ assets' = (assets \ {current}) \cup
                {[current EXCEPT !.status = TxnChanged(requests[r].op, requests[r].asset).status]}
    /\ requests' = [requests EXCEPT ![r].pc = "failed"]
    /\ flash' = "server error"
    /\ UNCHANGED <<events, sequences, vendors, year, handed, users>>

\* the commit raises (the event cannot be written, the database is locked):
\* the transaction is rolled back with the session
TxnFail(r) ==
    /\ requests[r].pc = "loaded"
    /\ ~TxnRefused(requests[r].op, requests[r].asset)
    /\ requests' = [requests EXCEPT ![r].pc = "failed"]
    /\ flash' = "server error"
    /\ UNCHANGED <<assets, events, sequences, vendors, year, handed, users>>

TxnNext ==
    \/ /\ Cardinality(assets) < MaxLifeAssets
       /\ create_asset(1, 1, "in_stock")
    \/ \E a \in assets, op \in TxnOps : TxnBegin(op, a.id)
    \/ \E r \in DOMAIN requests : TxnCommit(r)
    \/ \E r \in DOMAIN requests : TxnFail(r)

TxnSpec == Init /\ [][TxnNext]_vars

(***************************************************************************)
(* Every operation that writes assets or events, on a small inventory:     *)
(* creation, edit, import, the lifecycle operations, deletion and the      *)
(* data wipe.                                                              *)
(***************************************************************************)
AuditRoom == LifeRoom /\ Len(handed) < MaxHistory

AuditNext ==
    \/ AuditRoom /\ Cardinality(assets) < MaxLifeAssets
          /\ create_asset(1, 1, "in_stock")
    \/ AuditRoom /\ Cardinality(assets) < MaxLifeAssets
          /\ import_assets(<<RowMint>>)
    \/ \E a \in assets, in \in EditInputs : edit_asset(a.id, in[1], in[2], in[3])
    \/ \E a \in assets : LifeRoom /\ dispose_asset(a.id)
    \/ \E a \in assets : LifeRoom /\ assign_asset(a.id, "bob", "IT", "b@x")
    \/ \E a \in assets : LifeRoom /\ unassign_asset(a.id)
    \/ \E a \in assets :
          LifeRoom /\ start_repair(a.id, "other", "acme", "555", "street", "")
    \/ \E a \in assets :
          LifeRoom /\ complete_repair(a.id, "back_to_stock", <<"7">>, "")
    \/ \E a \in assets : LifeRoom /\ move_asset(a.id, <<"2">>)
    \/ \E a \in assets : LifeRoom /\ mark_damaged(a.id)
    \/ \E a \in assets : LifeRoom /\ mark_missing(a.id)
    \/ \E a \in assets : Len(handed) < MaxHistory /\ delete_asset(a.id)
    \/ reset_app_data("DELETE")

AuditSpec == Init /\ [][AuditNext]_vars

(***************************************************************************)
(* User administration. Every route is behind admin_required, which reads  *)
(* the caller's row when the request arrives; toggle_admin then loads the  *)
(* target row and commits its flipped flag. Requests of different callers  *)
(* interleave between these steps.                                         *)
(***************************************************************************)
UserIds == {u.id : u \in users}

UserGet(id) == CHOOSE u \in users : u.id = id

\* admin_required: the caller's row says is_admin
admin_required(caller) == \E u \in users : u.id = caller /\ u.is_admin

Forbidden ==
    /\ flash' = "403"
    /\ UNCHANGED <<assets, events, sequences, vendors, year, handed, requests, users>>

create_user(caller, is_admin) ==
    /\ Cardinality(users) < MaxUsers
    /\ IF admin_required(caller)
       THEN /\ users' = users \cup {NewUser(Max(UserIds) + 1, is_admin)}
            /\ flash' = "user: created"
            /\ UNCHANGED <<assets, events, sequences, vendors, year, handed, requests>>
       ELSE Forbidden

\* the request passes login_required and admin_required
ToggleArrive(caller, user_id) ==
    /\ Len(requests) < MaxToggles
    /\ IF admin_required(caller)
       THEN /\ requests' = Append(requests,
                    [caller |-> caller, user_id |-> user_id,
                     pc |-> "admitted", is_admin |-> FALSE])
            /\ UNCHANGED <<assets, events, sequences, vendors, year, flash, handed, users>>
       ELSE Forbidden

\* User.query.get_or_404(user_id) and the test on the caller's own id
ToggleLoad(r) ==
    /\ requests[r].pc = "admitted"
    /\ IF requests[r].user_id \notin UserIds
       THEN /\ requests' = [requests EXCEPT ![r].pc = "not found"]
            /\ flash' = "404"
       ELSE IF requests[r].user_id = requests[r].caller
       THEN /\ requests' = [requests EXCEPT ![r].pc = "refused"]
            /\ flash' = "toggle: cannot change your own admin status"
       ELSE /\ requests' = [requests EXCEPT
                    ![r].pc = "loaded",
                    ![r].is_admin = UserGet(requests[r].user_id).is_admin]
            /\ UNCHANGED flash
    /\ UNCHANGED <<assets, events, sequences, vendors, year, handed, users>>

\* user.is_admin = not user.is_admin and the commit: the UPDATE writes the
\* negation of the loaded flag; it fails when the row is gone
ToggleCommit(r) ==
    /\ requests[r].pc = "loaded"
    /\ IF requests[r].user_id \in UserIds
       THEN /\ users' = (users \ {UserGet(requests[r].user_id)})
                    \cup {NewUser(requests[r].user_id, ~requests[r].is_admin)}
            /\ requests' = [requests EXCEPT ![r].pc = "done"]
            /\ flash' = "toggle: success"
       ELSE /\ requests' = [requests EXCEPT ![r].pc = "failed"]
            /\ flash' = "server error"
            /\ UNCHANGED users
    /\ UNCHANGED <<assets, events, sequences, vendors, year, handed>>

AdminNext ==
    \/ \E caller \in UserIds, is_admin \in BOOLEAN : create_user(caller, is_admin)
    \/ \E caller \in UserIds, user_id \in UserIds : ToggleArrive(caller, user_id)
    \/ \E r \in DOMAIN requests : ToggleLoad(r)
    \/ \E r \in DOMAIN requests : ToggleCommit(r)
    \/ \E caller \in UserIds : admin_required(caller) /\ reset_app_data("DELETE")

AdminSpec == Init /\ [][AdminNext]_vars

(***************************************************************************)
(* Properties.                                                             *)
(***************************************************************************)
Issued(i) == handed[i].kind = "issued"
Discarded(i) == handed[i].kind = "discarded"
SameKey(i, j) == handed[i].office = handed[j].office /\ handed[i].year = handed[j].year

\* j is the next committed call after i for the same office and year
NextIssued(i, j) ==
    /\ i < j /\ Issued(i) /\ Issued(j) /\ SameKey(i, j)
    /\ ~\E k \in (i + 1)..(j - 1) : Issued(k) /\ SameKey(i, k)

C2_DistinctNumbers ==
    \A r, q \in DOMAIN requests :
        (r # q /\ requests[r].pc = "done" /\ requests[q].pc = "done"
         /\ ReqKey(requests[r]) = ReqKey(requests[q]))
            => requests[r].seq # requests[q].seq

\* C3 as stated: once delete_asset removed an asset whose tag carried number
\* k, every later committed call for the same office and year returns a
\* number greater than k.
C3_NoReuseAfterDelete ==
    \A i, j \in DOMAIN handed :
        (i < j /\ handed[i].kind = "deleted" /\ Issued(j) /\ SameKey(i, j))
            => handed[j].seq > handed[i].seq

IssuedFor(key) ==
    {i \in DOMAIN handed : Issued(i) /\ <<handed[i].office, handed[i].year>> = key}

OfficeOf(a) == Upper(Strip(LocationGet(a.location_id).code))
CategoryOf(a) == Upper(Strip(CategoryGet(a.category_id).code))

\* the counter continues for the asset added by this step
ContinuesCounter(a) ==
    /\ <<OfficeOf(a), year>> \in DOMAIN sequences'
    /\ sequences'[<<OfficeOf(a), year>>] =
          1 + Max({_max_existing_seq_for_office_year(assets, OfficeOf(a), year)}
                  \cup {sequences[k] : k \in {<<OfficeOf(a), year>>} \cap DOMAIN sequences})
    /\ a.asset_tag = FormatTag(OfficeOf(a), CategoryOf(a), year,
                               sequences'[<<OfficeOf(a), year>>])

\* C5: the counter rows are keyed by office code and year only; whatever its
\* category, an asset created in an office draws the number after the
\* office's counter (or after the highest number found in the office's
\* tags), and the category only appears in the tag.
C5_SharedCounter ==
    [][ /\ \A key \in DOMAIN sequences' :
              \E l \in Location : key = <<Upper(Strip(l.code)), year>>
        /\ (flash' = "create: success" /\ assets' # assets)
              => \A a \in assets' \ assets : ContinuesCounter(a) ]_vars

\* C5 witness: two assets of category C hold 0001 and 0002 of office M and
\* the asset of category X created after them holds 0003
C5_Scenario ==
    /\ flash = "create: success"
    /\ {a.asset_tag : a \in assets} =
          { FormatTag(<<"M">>, <<"C">>, 2025, 1), FormatTag(<<"M">>, <<"C">>, 2025, 2),
            FormatTag(<<"M">>, <<"X">>, 2025, 3) }
    /\ \E a \in assets : a.id = 3 /\ a.asset_tag = FormatTag(<<"M">>, <<"X">>, 2025, 3)

AssignBlocked == {"disposed", "repair", "missing", "damaged"}

\* C6: assign_asset on an asset whose status is disposed, repair, missing or
\* damaged is rejected: the asset rows and the event log stay as they were.
C6_AssignRejected ==
    [][ \A asset \in assets : \A in \in AssignInputs :
            (asset.status \in AssignBlocked /\ assign_asset(asset.id, in[1], in[2], in[3]))
                => /\ assets' = assets
                   /\ events' = events
                   /\ flash' = "assign: cannot assign" ]_vars

\* C6 witness: an assignment of a damaged asset was refused
C6_Refused ==
    /\ flash = "assign: cannot assign"
    /\ \E asset \in assets : asset.status = "damaged" /\ asset.assigned_to = None

\* the event appended by this step, if any
Appended == events'[Len(events')]

\* C7: complete_repair on an asset whose status is not repair is rejected
\* and changes neither the assets nor the events, and every repair_end event
\* is logged for an asset whose status was repair.
C7_OnlyFromRepair ==
    [][ /\ \A asset \in assets : \A in \in CompleteInputs :
              (asset.status # "repair" /\ complete_repair(asset.id, in[1], in[2], in[3]))
                  => /\ assets' = assets
                     /\ events' = events
                     /\ flash' = "repair_end: not under repair"
        /\ (Len(events') = Len(events) + 1 /\ Appended.event_type = "repair_end")
              => \E asset \in assets :
                    asset.id = Appended.asset_id /\ asset.status = "repair" ]_vars

\* C7 witness: complete_repair was refused for an asset created with the
\* form's status under_repair
C7_Refused ==
    /\ flash = "repair_end: not under repair"
    /\ \E asset \in assets : asset.status = "under_repair"

LifecycleDone ==
    { "assign: success", "unassign: success", "repair_start: success",
      "repair_end: success", "dispose: success", "damaged: success",
      "missing: success", "move: success" }

\* C8: every successful call of a lifecycle operation appends exactly one
\* event, whose from_status is the asset's status before the call and whose
\* to_status is its status after the call.
C8_OneEvent ==
    [][ flash' \in LifecycleDone
            => /\ Len(events') = Len(events) + 1
               /\ SubSeq(events', 1, Len(events)) = events
               /\ \E old \in assets : \E new \in assets' :
                     /\ old.id = Appended.asset_id
                     /\ new.id = old.id
                     /\ Appended.from_status = old.status
                     /\ Appended.to_status = new.status
                     /\ assets' = (assets \ {old}) \cup {new} ]_vars

\* C8 witness: a status-changing call has logged its event
C8_Logged ==
    /\ flash = "damaged: success"
    /\ Len(events) > 0
    /\ events[Len(events)].event_type = "damaged"
    /\ events[Len(events)].from_status = "assigned"
    /\ events[Len(events)].to_status = "damaged"

\* C9 as stated: an asset whose status is disposed keeps that status as long
\* as it exists, whatever operation is called.
C9_DisposedTerminal ==
    [][ \A old \in assets : \A new \in assets' :
            (old.status = "disposed" /\ new.id = old.id) => new.status = "disposed" ]_vars

\* C10: dispose_asset on an asset that is already disposed changes neither
\* the assets nor the events.
C10_SecondDisposeNoOp ==
    [][ \A asset \in assets :
            (asset.status = "disposed" /\ dispose_asset(asset.id))
                => /\ assets' = assets
                   /\ events' = events
                   /\ flash' = "dispose: already disposed" ]_vars

\* C10 witness: after two calls of dispose_asset the log holds one dispose
\* event of the asset
C10_DisposedOnce ==
    /\ flash = "dispose: already disposed"
    /\ \E asset \in assets :
          /\ asset.status = "disposed"
          /\ Cardinality({i \in DOMAIN events :
                 events[i].asset_id = asset.id /\ events[i].event_type = "dispose"}) = 1


\* C11: no step changes the asset_tag of an asset it keeps: edit_asset and
\* the lifecycle operations leave the tag as it was set at creation, also
\* when the edit moves the asset to another location.
C11_TagImmutable ==
    [][ \A old \in assets : \A new \in assets' :
            new.id = old.id => new.asset_tag = old.asset_tag ]_vars

\* C11 witness: an edit moved an asset created in office M to location 2 and
\* its tag still names office M
C11_EditedElsewhere ==
    /\ flash = "edit: success"
    /\ \E asset \in assets :
          /\ asset.location_id = 2
          /\ asset.asset_tag = FormatTag(<<"M">>, <<"C">>, 2025, 1)


\* C12: in every reachable state no two asset rows carry the same asset_tag,
\* whatever creations, imports with explicit or minted tags and deletions
\* led to the state.
C12_UniqueTags ==
    \A a, b \in assets : a.asset_tag = b.asset_tag => a = b

\* C12 witness: create_asset minted a tag that an imported asset already
\* carries (the scan misses the tags of office M-D) and the insert was refused
C12_CollisionRefused ==
    /\ flash = "create: server error"
    /\ \E a \in assets : a.asset_tag = Tag_MD_C_1
    /\ \E i \in DOMAIN handed : Discarded(i) /\ handed[i].tag = Tag_MD_C_1


\* a row that fails the checks made on the file's own fields
BadRow(row) ==
    \/ row.name = ""
    \/ Strip(row.category_code) = <<>>
    \/ Strip(row.location_code) = <<>>
    \/ ImportStatus(row.status) \notin ALLOWED_STATUSES
    \/ ~\E c \in Category : c.code = Upper(Strip(row.category_code))
    \/ ~\E l \in Location : l.code = Upper(Strip(row.location_code))

\* every row of the file is stored with its created event
AllStored(rows) ==
    /\ Cardinality(assets') = Cardinality(assets) + Len(rows)
    /\ assets \subseteq assets'
    /\ Len(events') = Len(events) + Len(rows)
    /\ SubSeq(events', 1, Len(events)) = events
    /\ \A a \in assets' \ assets :
          \E i \in (Len(events) + 1)..Len(events') :
              /\ events'[i].asset_id = a.id
              /\ events'[i].event_type = "created"
              /\ events'[i].to_status = a.status
    /\ \A i \in DOMAIN rows :
          rows[i].vendor_name # "" => \E v \in vendors' : v.name = rows[i].vendor_name

C14_Atomic ==
    [][ /\ \A old \in assets : \A new \in assets' :
              (new.id = old.id /\ new # old)
                  => /\ Len(events') = Len(events) + 1
                     /\ Appended.asset_id = old.id
                     /\ new.status # old.status => Appended.to_status = new.status
        /\ events' # events
              => /\ Len(events') = Len(events) + 1
                 /\ SubSeq(events', 1, Len(events)) = events
                 /\ \E new \in assets' :
                       /\ new.id = Appended.asset_id
                       /\ Appended.from_status # Appended.to_status
                              => new.status = Appended.to_status
        /\ (\E r \in DOMAIN requests :
                requests[r].pc = "loaded" /\ requests'[r].pc = "failed")
              => assets' = assets /\ events' = events ]_vars

\* C14 witness: the commit of a dispose request raised, and the asset kept
\* its status and got no dispose event
C14_FailedWhole ==
    \E r \in DOMAIN requests :
        /\ requests[r].pc = "failed"
        /\ requests[r].op = "dispose"
        /\ \E asset \in assets :
              /\ asset.id = requests[r].asset.id
              /\ asset.status = "in_stock"
        /\ \A i \in DOMAIN events : events[i].event_type # "dispose"

\* the events of one asset, in log order
EventsOf(id) == SelectSeq(events, LAMBDA e : e.asset_id = id)

\* C19 as stated: with concurrent lifecycle requests on one asset the log
\* reads as a serial execution: each event of the asset starts from the
\* to_status of the asset's event before it, and the asset's status is the
\* to_status of its last event.
C19_Serial ==
    \A asset \in assets :
        /\ \A i \in 1..(Len(EventsOf(asset.id)) - 1) :
              EventsOf(asset.id)[i + 1].from_status = EventsOf(asset.id)[i].to_status
        /\ EventsOf(asset.id) # <<>>
              => asset.status = EventsOf(asset.id)[Len(EventsOf(asset.id))].to_status


\* C15 as stated: the event log alone gives the asset's state: the status of
\* each asset is the to_status of its most recent event and its location is
\* that event's to_location_id.
C15_LogReconstructs ==
    \A asset \in assets :
        EventsOf(asset.id) # <<>>
            => /\ asset.status = EventsOf(asset.id)[Len(EventsOf(asset.id))].to_status
               /\ asset.location_id =
                      EventsOf(asset.id)[Len(EventsOf(asset.id))].to_location_id

\* C16 as stated: the status of every stored asset is one of in_stock,
\* assigned, in_use, repair, damaged, missing, disposed.
C16_KnownStatus ==
    \A asset \in assets :
        asset.status \in
            {"in_stock", "assigned", "in_use", "repair", "damaged", "missing", "disposed"}

\* C17 as stated: an asset with an assignment field set has status assigned
\* or in_use.
C17_AssignedOnlyWhileAssigned ==
    \A asset \in assets :
        (\/ asset.assigned_to # None
         \/ asset.assigned_department # None
         \/ asset.assigned_email # None
         \/ asset.assigned_at # None)
            => asset.status \in {"assigned", "in_use"}


\* the code is empty after trimming
Blank(code) == Strip(code) = <<>>

\* C18: create_asset for a location or a category whose code is blank is
\* answered with the ValueError's message, and the counter rows, the assets
\* and the events stay as they were.
C18_BlankCodeRefused ==
    [][ \A in \in CodeInputs :
            (/\ Blank(LocationGet(in[1]).code) \/ Blank(CategoryGet(in[2]).code)
             /\ create_asset(in[1], in[2], "in_stock"))
                => /\ sequences' = sequences
                   /\ assets' = assets
                   /\ events' = events
                   /\ handed' = handed
                   /\ flash' = IF Blank(LocationGet(in[1]).code)
                               THEN "Location.code missing"
                               ELSE "Category.code missing" ]_vars

\* C18 witness: a creation for the category without code was refused while
\* the counter of office M stands at 1
C18_Refused ==
    /\ flash = "Category.code missing"
    /\ <<<<"M">>, 2025>> \in DOMAIN sequences
    /\ sequences[<<<<"M">>, 2025>>] = 1
    /\ Cardinality(assets) = 1


\* C20 as stated: the stored last_seq of an office and year never decreases
\* (no step of these runs is a data wipe), and it is never lower than the
\* number of a tag issued and committed for that office and year.
C20_NeverDecreases ==
    [][ /\ \A key \in DOMAIN sequences :
              key \in DOMAIN sequences' /\ sequences'[key] >= sequences[key]
        /\ \A i \in DOMAIN handed' :
              (handed'[i].kind = "issued" /\ handed'[i].year = Str(year))
                  => /\ <<handed'[i].office, year>> \in DOMAIN sequences'
                     /\ sequences'[<<handed'[i].office, year>>] >= handed'[i].seq ]_vars


\* the offices of the locations that have a code
Offices == {Upper(Strip(l.code)) : l \in Location} \ {<<>>}

\* the numbers carried by the stored tags of an office and year: the tags
\* that generate_asset_tag formats for the office, a category and the year
TagNumbers(office_code, yr) ==
    {n \in 1..(MaxHistory + 2) :
        \E a \in assets : \E c \in Category :
            a.asset_tag = FormatTag(office_code, Upper(Strip(c.code)), yr, n)}

\* C21 as stated: for every office code, hyphenated ones included, the
\* counter row that _get_or_create_sequence returns in the current state is
\* at least the highest number carried by a stored tag of that office and
\* year.
C21_RepairCoversTags ==
    \A office_code \in Offices :
        \A n \in TagNumbers(office_code, year) :
            _get_or_create_sequence(Db, <<office_code, year>>, office_code, year)
                [<<office_code, year>>] >= n


\* C22 as stated: every accepted assign_asset call leaves the asset with
\* status assigned, the given name in assigned_to and assigned_at set, and
\* logs one assign event whose to_status is assigned; a call with an empty
\* name changes nothing.
C22_AssignSetsAssigned ==
    [][ \A asset \in assets : \A in \in AssignInputs :
            assign_asset(asset.id, in[1], in[2], in[3])
                => IF in[1] # "" /\ asset.status \notin AssignBlocked
                   THEN /\ Len(events') = Len(events) + 1
                        /\ Appended.event_type = "assign"
                        /\ Appended.to_status = "assigned"
                        /\ \E new \in assets' :
                              /\ new.id = asset.id
                              /\ new.status = "assigned"
                              /\ new.assigned_to = in[1]
                              /\ new.assigned_at # None
                   ELSE assets' = assets /\ events' = events ]_vars


\* C23: unassign_asset on an asset with assigned_to or assigned_at set clears
\* the four assignment fields, sets the status to in_stock exactly when it
\* was assigned or in_use and leaves it otherwise, and appends one unassign
\* event; on an asset with neither field set it changes nothing.
C23_UnassignClears ==
    [][ \A asset \in assets :
            unassign_asset(asset.id)
                => IF asset.assigned_to # None \/ asset.assigned_at # None
                   THEN /\ Len(events') = Len(events) + 1
                        /\ SubSeq(events', 1, Len(events)) = events
                        /\ Appended.event_type = "unassign"
                        /\ Appended.asset_id = asset.id
                        /\ \E new \in assets' :
                              /\ assets' = (assets \ {asset}) \cup {new}
                              /\ new.id = asset.id
                              /\ new.assigned_to = None
                              /\ new.assigned_department = None
                              /\ new.assigned_email = None
                              /\ new.assigned_at = None
                              /\ new.status = IF asset.status \in {"assigned", "in_use"}
                                              THEN "in_stock" ELSE asset.status
                   ELSE assets' = assets /\ events' = events ]_vars

\* C23 witness: an asset whose status was not assigned has been unassigned
\* and kept its status
C23_Unassigned ==
    /\ flash = "unassign: success"
    /\ Len(events) > 0
    /\ events[Len(events)].event_type = "unassign"
    /\ events[Len(events)].from_status = "under_repair"
    /\ events[Len(events)].to_status = "under_repair"
    /\ \E asset \in assets : asset.assigned_to = None /\ asset.assigned_at = None


\* the request names no vendor the application knows: the asset has no
\* vendor of its own to reuse and no stored vendor has the typed name
NoKnownVendor(asset, vendor_option, repair_vendor) ==
    /\ ~(vendor_option = "asset_vendor" /\ asset.vendor # None)
    /\ \A v \in vendors : Lower(v.name) # Lower(repair_vendor)

\* C24: start_repair changes nothing when the status is disposed, missing or
\* repair, and nothing (no vendor either) when it names no known vendor and
\* lacks the phone or the address; every other call sets the status to
\* repair, records the resolved vendor, leaves the four assignment fields
\* empty and appends one repair_start event.
C24_StartRepair ==
    [][ \A asset \in assets : \A in \in RepairInputs :
            start_repair(asset.id, in[1], in[2], in[3], in[4], in[5])
                => IF \/ asset.status \in {"disposed", "missing", "repair"}
                      \/ /\ NoKnownVendor(asset, in[1], in[2])
                         /\ (in[2] = "" \/ in[3] = "" \/ in[4] = "")
                   THEN assets' = assets /\ events' = events /\ vendors' = vendors
                   ELSE /\ Len(events') = Len(events) + 1
                        /\ SubSeq(events', 1, Len(events)) = events
                        /\ Appended.event_type = "repair_start"
                        /\ Appended.asset_id = asset.id
                        /\ Appended.from_status = asset.status
                        /\ Appended.to_status = "repair"
                        /\ \E new \in assets' :
                              /\ assets' = (assets \ {asset}) \cup {new}
                              /\ new.id = asset.id
                              /\ new.status = "repair"
                              /\ new.assigned_to = None
                              /\ new.assigned_department = None
                              /\ new.assigned_email = None
                              /\ new.assigned_at = None
                              /\ \E v \in vendors' :
                                    /\ new.repair_vendor = v.name
                                    /\ \/ Lower(v.name) = Lower(in[2])
                                       \/ in[1] = "asset_vendor" /\ v.name = asset.vendor
                                    /\ NoKnownVendor(asset, in[1], in[2])
                                          <=> v \notin vendors ]_vars

\* C24 witness: an assigned asset went to repair with a new vendor and lost
\* its assignment
C24_SentToRepair ==
    /\ flash = "repair_start: success"
    /\ Len(events) > 0
    /\ events[Len(events)].event_type = "repair_start"
    /\ events[Len(events)].from_status = "assigned"
    /\ \E asset \in assets :
          /\ asset.status = "repair"
          /\ asset.assigned_to = None
          /\ asset.assigned_at = None
          /\ asset.repair_vendor = "acme"


\* C25: a successful complete_repair sets the status to disposed when the
\* outcome is "disposed" and to in_stock for every other outcome, the empty
\* one included, records the closure date and the given cost, and appends
\* exactly one repair_end event whose from_status is repair.
C25_CompleteRepair ==
    [][ \A asset \in assets : \A in \in CompleteInputs :
            (complete_repair(asset.id, in[1], in[2], in[3])
                /\ flash' = "repair_end: success")
                => /\ asset.status = "repair"
                   /\ Len(events') = Len(events) + 1
                   /\ SubSeq(events', 1, Len(events)) = events
                   /\ Appended.event_type = "repair_end"
                   /\ Appended.asset_id = asset.id
                   /\ Appended.from_status = "repair"
                   /\ \E new \in assets' :
                         /\ assets' = (assets \ {asset}) \cup {new}
                         /\ new.id = asset.id
                         /\ new.status = IF in[1] = "disposed"
                                         THEN "disposed" ELSE "in_stock"
                         /\ Appended.to_status = new.status
                         /\ new.repair_closed_at = Today
                         /\ in[2] # <<>> => new.repair_cost = in[2]
                         /\ in[2] = <<>> => new.repair_cost = asset.repair_cost ]_vars

\* C25 witness: a repair was completed without an outcome and with a cost,
\* and the asset is back in stock
C25_BackInStock ==
    /\ flash = "repair_end: success"
    /\ Len(events) > 0
    /\ events[Len(events)].event_type = "repair_end"
    /\ \E asset \in assets :
          /\ asset.status = "in_stock"
          /\ asset.repair_cost = <<"7">>
          /\ asset.repair_closed_at = Today


\* the requests whose cost is not empty and is no decimal numeral
BadCostInputs == {in \in CompleteInputs : in[2] # <<>> /\ ~IsFloat(in[2])}

\* C26: complete_repair with a non-empty cost that is no number reports the
\* validation error and changes neither the asset (status, repair_closed_at,
\* repair_cost, repair_notes) nor the events; the asset is still in repair,
\* and a complete_repair with a valid cost called on it right after the
\* refusal succeeds.
C26_BadCostRejected ==
    [][ /\ \A asset \in assets : \A in \in BadCostInputs :
              (asset.status = "repair" /\ complete_repair(asset.id, in[1], in[2], in[3]))
                  => /\ flash' = "repair_end: cost must be a number"
                     /\ assets' = assets
                     /\ events' = events
        /\ \A asset \in assets : \A in \in CompleteInputs \ BadCostInputs :
              (flash = "repair_end: cost must be a number"
                    /\ asset.status = "repair"
                    /\ complete_repair(asset.id, in[1], in[2], in[3]))
                  => flash' = "repair_end: success"
        /\ flash' = "repair_end: cost must be a number"
              => \E asset \in assets' : asset.status = "repair" ]_vars

\* C26 witness: a completion with the cost "abc" was refused and the asset
\* is still in repair with its repair open
C26_StillInRepair ==
    /\ flash = "repair_end: cost must be a number"
    /\ BadCostInputs # {}
    /\ \E asset \in assets :
          /\ asset.status = "repair"
          /\ asset.repair_closed_at = None
          /\ asset.repair_cost = NoCost
    /\ \A i \in 1..Len(events) : events[i].event_type # "repair_end"


\* C27: move_asset with a numeric location other than the asset's own
\* changes the asset's location_id and no other field, and appends exactly
\* one move event with the old and the new location and with from_status
\* equal to to_status; with the asset's own location or a non-numeric one it
\* changes nothing.
C27_MoveOnlyLocation ==
    [][ \A asset \in assets : \A l \in MoveInputs :
            move_asset(asset.id, l)
                => IF l \in {IntToStr(n) : n \in LocationIds \ {asset.location_id}}
                   THEN /\ Len(events') = Len(events) + 1
                        /\ SubSeq(events', 1, Len(events)) = events
                        /\ Appended.event_type = "move"
                        /\ Appended.asset_id = asset.id
                        /\ Appended.from_location_id = asset.location_id
                        /\ IntToStr(Appended.to_location_id) = l
                        /\ Appended.from_status = asset.status
                        /\ Appended.to_status = asset.status
                        /\ \E new \in assets' :
                              /\ assets' = (assets \ {asset}) \cup {new}
                              /\ new.location_id = Appended.to_location_id
                              /\ \A f \in DOMAIN asset \ {"location_id"} :
                                    new[f] = asset[f]
                   ELSE assets' = assets /\ events' = events ]_vars

\* C27 witness: an assigned asset was moved from location 1 to location 2
\* and is still assigned
C27_Moved ==
    /\ flash = "move: success"
    /\ Len(events) > 0
    /\ events[Len(events)].event_type = "move"
    /\ events[Len(events)].from_location_id = 1
    /\ events[Len(events)].to_location_id = 2
    /\ events[Len(events)].from_status = "assigned"
    /\ \E asset \in assets :
          asset.location_id = 2 /\ asset.status = "assigned" /\ asset.assigned_to = "bob"


\* the asset is still stored after the step
Survives(asset) == \E b \in assets' : b.id = asset.id

StoredSeq(key) == IF key \in DOMAIN sequences THEN sequences[key] ELSE 0

\* C29 as stated: the counters of different offices are independent. The
\* counter row that _get_or_create_sequence returns for an office is raised
\* by the tags of that office only: it is never above both the stored
\* last_seq and the highest number of a stored tag of that office and year,
\* also when another office's code starts with this office's code and a
\* hyphen.
C29_OwnTagsOnly ==
    \A office_code \in Offices :
        _get_or_create_sequence(Db, <<office_code, year>>, office_code, year)
            [<<office_code, year>>]
                <= Max({StoredSeq(<<office_code, year>>)}
                       \cup TagNumbers(office_code, year))


\* C30 as stated: at least one admin user exists in every reachable state,
\* whatever the sequence or interleaving of admin requests.
C30_AdminExists == \E u \in users : u.is_admin

=============================================================================
